---- MODULE Spec2Model ----
(***************************************************************************)
(* A model of the RSA protocol layer (src/src/rsa.rs) and of the           *)
(* interactive session (src/src/app.rs) of thss-cryptography-rsa.          *)
(*                                                                         *)
(* Scale.  The program packs 4 bytes of 8 bits into one limb.  The model   *)
(* keeps the 4 bytes per limb and every shift and mask of the code, with   *)
(* the byte narrowed to ByteBits = 6 bits (an alphabet of 64 characters),  *)
(* so that a two-limb modulus stays inside the integers TLC computes       *)
(* with.  The public exponent E keeps its value, 114493.                   *)
(*                                                                         *)
(* The modules bigint and algorithms are not among the source files; the   *)
(* operators that stand for them are written from spec.md and are marked   *)
(* as such where they are defined.                                         *)
(***************************************************************************)
EXTENDS Integers, Sequences, FiniteSets, TLC

VARIABLES
    \* the App session, app.rs:20-32
    pub_key, priv_key, key_length, input, output, error, used_time,
    n, d, n_barrett_m, key_len,
    \* the process running the session: the panic that ended it ("" while it
    \* runs), the rsa function its last update called, the updates it has run
    panic, rsaCalled, steps,
    \* a run of rsa.rs outside the session: the key pair in hand, the last call
    keys, probe

appVars == <<pub_key, priv_key, key_length, input, output, error, used_time,
             n, d, n_barrett_m, key_len>>
obsVars == <<panic, rsaCalled, steps>>
vars == <<appVars, obsVars, keys, probe>>

----------------------------------------------------------------------------
(* Outcomes of a call: a value, a typed error (Result::Err), or a panic.   *)

Ok(v) == [tag |-> "ok", val |-> v]
Err(msg) == [tag |-> "err", val |-> msg]
Panic(msg) == [tag |-> "panic", val |-> msg]

Min(a, b) == IF a < b THEN a ELSE b

----------------------------------------------------------------------------
(* Text.  A string is a sequence of characters; a character is a byte.     *)
(* Alphabet[b + 1] is the character of byte value b: NUL is byte 0, the    *)
(* last four stand for bytes that are no UTF-8 text on their own.          *)

Alphabet ==
    << "NUL",
       "0", "1", "2", "3", "4", "5", "6", "7", "8", "9",
       "a", "b", "c", "d", "e", "f",
       ",", "\n",
       "g", "h", "i", "j", "k", "l", "m", "n", "o", "p", "q", "r", "s", "t",
       "u", "v", "w", "x", "y", "z", " ", "I",
       "H", "R", "S", "(", ")", "[", "]", "<", ">", "=", "*", "#", "@", "!",
       "?", ".", ":", ";", "-",
       "x80", "xbf", "xfe", "xff" >>

ByteBase == Len(Alphabet)
ByteBits == CHOOSE k \in 1..8 : 2^k = ByteBase

Chars == {Alphabet[i] : i \in 1..ByteBase}
NonUtf8 == {"x80", "xbf", "xfe", "xff"}
Printable == Chars \ (NonUtf8 \cup {"NUL", "\n"})

ByteOf(c) == (CHOOSE i \in 1..ByteBase : Alphabet[i] = c) - 1
CharOf(b) == Alphabet[b + 1]

\* String::from_utf8: Ok exactly when the bytes are text
from_utf8(bytes) ==
    IF \E i \in 1..Len(bytes) : bytes[i] \in NonUtf8
    THEN Err("invalid utf-8") ELSE Ok(bytes)

\* str::strip_suffix(c).unwrap_or(s): one trailing c removed, if there is one
strip_suffix_or(s, c) ==
    IF Len(s) > 0 /\ s[Len(s)] = c THEN SubSeq(s, 1, Len(s) - 1) ELSE s

\* str::find(c): the index (from 0) of the first c, or -1 for None
find(s, c) ==
    IF \E i \in 1..Len(s) : s[i] = c
    THEN (CHOOSE i \in 1..Len(s) : s[i] = c /\ \A j \in 1..(i - 1) : s[j] # c) - 1
    ELSE -1

RECURSIVE split(_, _)
\* str::split(c): the pieces between the c's; one (empty) piece for ""
split(s, c) ==
    LET i == find(s, c)
    IN  IF i < 0 THEN <<s>>
        ELSE <<SubSeq(s, 1, i)>> \o split(SubSeq(s, i + 2, Len(s)), c)

RECURSIVE join(_, _)
\* [String]::join(c)
join(ss, c) ==
    IF Len(ss) = 0 THEN <<>>
    ELSE IF Len(ss) = 1 THEN ss[1]
    ELSE ss[1] \o <<c>> \o join(Tail(ss), c)

RECURSIVE Concat(_)
\* Vec<Vec<_>>::concat()
Concat(ss) == IF Len(ss) = 0 THEN <<>> ELSE ss[1] \o Concat(Tail(ss))

\* slice::chunks(k), k > 0: consecutive pieces of k elements, the last shorter
chunks(s, k) ==
    [i \in 1..((Len(s) + k - 1) \div k) |->
        SubSeq(s, (i - 1) * k + 1, Min(i * k, Len(s)))]

----------------------------------------------------------------------------
(* BigInt (bigint.rs, written from spec.md section 3): limbs, least        *)
(* significant first, and the number of limbs that are significant.        *)

BytesPerLimb == 4
Radix == ByteBase ^ BytesPerLimb
VALUE_LEN == BytesPerLimb * ByteBits

BigInt(value, length) == [value |-> value, length |-> length]

RECURSIVE ValOfLimbs(_)
\* the number a little-endian limb sequence stands for
ValOfLimbs(limbs) ==
    IF Len(limbs) = 0 THEN 0 ELSE limbs[1] + Radix * ValOfLimbs(Tail(limbs))
\* the number a BigInt stands for: limbs [0, length)
Val(x) == ValOfLimbs(SubSeq(x.value, 1, x.length))

RECURSIVE LimbsOf(_)
\* the significant limbs of a number, at least one
LimbsOf(v) == IF v < Radix THEN <<v>> ELSE <<v % Radix>> \o LimbsOf(v \div Radix)

\* the BigInt of a number: every limb significant, length >= 1
FromNat(v) == BigInt(LimbsOf(v), Len(LimbsOf(v)))

\* BigInt::with_capacity(c): c zeroed limbs, the value 0, length 1
with_capacity(c) == BigInt([i \in 1..c |-> 0], 1)

\* BigInt::from_slice
from_slice(limbs) == BigInt(limbs, Len(limbs))

is_zero(x) == Val(x) = 0

\* the number of significant limbs: leading zero limbs do not count
SigLen(x) ==
    IF \A i \in 1..x.length : x.value[i] = 0 THEN 1
    ELSE CHOOSE k \in 1..x.length :
            x.value[k] # 0 /\ \A j \in (k + 1)..x.length : x.value[j] = 0

\* x < y, spec.md 4.1: by significant length, then most significant limb first
Less(x, y) ==
    LET lx == SigLen(x)
        ly == SigLen(y)
    IN  \/ lx < ly
        \/ /\ lx = ly
           /\ \E k \in 1..lx :
                /\ x.value[k] < y.value[k]
                /\ \A j \in (k + 1)..lx : x.value[j] = y.value[j]

\* mod_div(a, b), b # 0: quotient and remainder (a zero divisor is an
\* arithmetic error, which the callers below meet before they divide)
mod_div(a, b) == <<FromNat(Val(a) \div Val(b)), FromNat(Val(a) % Val(b))>>

\* to_int(): the value as one machine word
to_int(x) == Val(x)

HexDigits == {Alphabet[i] : i \in 2..17}
HexVal(c) == ByteOf(c) - 1
HexChar(v) == CharOf(v + 1)

RECURSIVE HexValue(_)
\* the number a big-endian string of hex digits stands for
HexValue(s) ==
    IF Len(s) = 0 THEN 0
    ELSE 16 * HexValue(SubSeq(s, 1, Len(s) - 1)) + HexVal(s[Len(s)])

RECURSIVE HexOf(_)
\* big-endian hex digits of a number, no leading zero, "0" for 0
HexOf(v) == IF v < 16 THEN <<HexChar(v)>> ELSE HexOf(v \div 16) \o <<HexChar(v % 16)>>

IsHex(s) == Len(s) > 0 /\ \A i \in 1..Len(s) : s[i] \in HexDigits

\* BigInt::fmt_hex: big-endian hex, no fixed width
fmt_hex(x) == HexOf(Val(x))

\* BigInt::from_hex: Err on a character that is no hex digit
from_hex(s) == IF IsHex(s) THEN Ok(FromNat(HexValue(s))) ELSE Err("malformed hex")

----------------------------------------------------------------------------
(* Barrett reduction and the number theory (algorithms.rs, written from    *)
(* spec.md 4.2-4.5).                                                       *)

\* barrett_m(): the reduction constant of a modulus.  The constant is
\* "derived once from a specific modulus; valid only for that modulus";
\* the model keeps which modulus it was derived from, not its digits.
\* A zero modulus has none: precompute divides by the modulus.
barrett_m(x) ==
    IF Val(x) = 0 THEN Panic("division by zero") ELSE Ok([barrett_of |-> Val(x)])

\* whether m is the constant of modulus nn
BarrettValid(m, nn) == Val(nn) # 0 /\ m = barrett_m(nn).val

RECURSIVE MulMod(_, _, _)
\* (a * b) mod m for a < m <= 2^25, the product taken five bits of b at a
\* time so that every intermediate value is below 2^31
MulMod(a, b, m) ==
    IF a = 0 \/ b < 32 THEN (a * b) % m
    ELSE (MulMod(a, b \div 32, m) * 32 + a * (b % 32)) % m

\* barrett_mod(x, m, nn) = x mod nn, for m the constant of nn
barrett_mod(x, m, nn) == FromNat(Val(x) % Val(nn))

\* barrett_mod(&(a * b), m, nn), the product reduced as it is formed
barrett_mod_product(a, b, m, nn) == FromNat(MulMod(Val(a) % Val(nn), Val(b), Val(nn)))

\* one step of square and multiply: h squared, times b if the bit is set,
\* reduced after every multiplication
SquareMultiply(h, b, bit, m) ==
    IF h = 0 THEN 0
    ELSE IF bit = 1 THEN MulMod(MulMod(h, h, m), b % m, m)
    ELSE MulMod(h, h, m)

RECURSIVE PowMod(_, _, _)
\* square and multiply over the bits of e, the most significant first
PowMod(b, e, m) ==
    IF e = 0 THEN 1 % m
    ELSE SquareMultiply(PowMod(b, e \div 2, m), b, e % 2, m)

\* mod_power(base, exponent, barrett_m, modulus), modulus > 1
mod_power(b, e, m, nn) == FromNat(PowMod(Val(b) % Val(nn), Val(e), Val(nn)))

RECURSIVE EGcd(_, _)
\* Euclid's algorithm with the Bezout coefficients: <<g, s, t>> with
\* a*s + b*t = g = gcd(a, b)
EGcd(a, b) ==
    IF b = 0 THEN <<a, 1, 0>>
    ELSE LET r == EGcd(b, a % b)
         IN  <<r[1], r[3], r[2] - (a \div b) * r[3]>>

\* extended_euclid(a, b, barrett_m, modulus): <<gcd, u, v>>, the coefficients
\* as residues of the working modulus (no signed BigInt exists); a
\* non-invertible a (gcd # 1) is reported as a fatal arithmetic error
extended_euclid(a, b, m, modulus) ==
    LET r == EGcd(a, b)
    IN  IF r[1] # 1 THEN Panic("non-invertible exponent")
        ELSE Ok(<<r[1], FromNat(r[2] % Val(modulus)), FromNat(r[3] % Val(modulus))>>)

\* one Miller-Rabin round: whether odd num > 2 survives witness a
StrongProbablePrime(num, a) ==
    LET s == CHOOSE k \in 0..31 : (num - 1) % (2^k) = 0 /\ (num - 1) % (2^(k + 1)) # 0
        t == (num - 1) \div (2^s)
        x == PowMod(a, t, num)
    IN  \/ x = 1
        \/ \E i \in 0..(s - 1) : PowMod(x, 2^i, num) = num - 1

\* miller_rabin(num), the rounds having drawn the witnesses ws: false for an
\* even num >= 4, true only if num survives every round
miller_rabin(num, ws) ==
    /\ num > 1
    /\ num % 2 = 1 \/ num = 2
    /\ \A a \in ws : a % num = 0 \/ StrongProbablePrime(num, a % num)

----------------------------------------------------------------------------
(* rsa.rs *)

E == 114493
E_BIGINT == from_slice(<<E>>)

\* gen_prime, one turn of its loop on the candidate BigInt::rand drew: the
\* candidate made odd, and whether the turn returns it (otherwise it loops)
gen_prime_num(cand) == IF cand % 2 = 0 THEN cand + 1 ELSE cand
gen_prime_returns(cand, ws) ==
    LET num == FromNat(gen_prime_num(cand))
        r == mod_div(num, E_BIGINT)[2]
    IN  /\ ~is_zero(r)
        /\ miller_rabin(Val(num), ws)

\* gen_keys with lines 35-39 left out: the coefficient of (E, r) returned
\* as if it were the inverse modulo phi_n
gen_keys_uncorrected(p, q) ==
    LET phi_n == FromNat((Val(p) - 1) * (Val(q) - 1))
        bm == barrett_m(phi_n)
        r == mod_div(phi_n, E_BIGINT)[2]
        uv == extended_euclid(E, to_int(r), bm.val, phi_n)
    IN  IF uv.tag # "ok" THEN uv
        ELSE Ok(<<FromNat(Val(p) * Val(q)), barrett_mod(uv.val[2], bm.val, phi_n)>>)

\* &a - &b on BigInt: the caller guarantees a result that is not negative
\* (spec.md 4.1); there is no value to return otherwise
sub(a, b) ==
    IF Less(a, b) THEN Panic("subtraction below zero")
    ELSE Ok(FromNat(Val(a) - Val(b)))

\* the back-substitution without "if u < div_v { u = &u + &phi_n }"
back_substitution_unguarded(u0, v, div, m, phi_n) ==
    LET div_v == barrett_mod_product(v, div, m, phi_n)
        diff == sub(u0, div_v)
    IN  IF diff.tag # "ok" THEN diff
        ELSE Ok([minuend |-> u0, subtrahend |-> div_v,
                 d |-> barrett_mod(diff.val, m, phi_n)])

\* the back-substitution of gen_keys (lines 35-39): the two operands of
\* the subtraction it executes, and d
back_substitution(u0, v, div, m, phi_n) ==
    LET div_v == barrett_mod_product(v, div, m, phi_n)
        u == IF Less(u0, div_v) THEN FromNat(Val(u0) + Val(phi_n)) ELSE u0
        diff == sub(u, div_v)
    IN  IF diff.tag # "ok" THEN diff
        ELSE Ok([minuend |-> u, subtrahend |-> div_v,
                 d |-> barrett_mod(diff.val, m, phi_n)])

\* gen_keys from "let n = &p * &q" on, for the p and q gen_prime returned
gen_keys_from(p, q) ==
    LET n_pq == FromNat(Val(p) * Val(q))
        phi_n == FromNat((Val(p) - 1) * (Val(q) - 1))
        bm == barrett_m(phi_n)
        dr == mod_div(phi_n, E_BIGINT)
        div == dr[1]
        r == dr[2]
        uv == extended_euclid(E, to_int(r), bm.val, phi_n)
        bs == back_substitution(uv.val[2], uv.val[3], div, bm.val, phi_n)
    IN  IF bm.tag # "ok" THEN bm
        ELSE IF uv.tag # "ok" THEN uv
        ELSE IF bs.tag # "ok" THEN bs
        ELSE Ok(<<n_pq, bs.val.d>>)

\* the fold of str_to_bigints: up to four bytes into one u64, the first lowest
RECURSIVE PackLimb(_)
PackLimb(four_u8s) ==
    IF Len(four_u8s) = 0 THEN 0
    ELSE ByteOf(four_u8s[1]) + ByteBase * PackLimb(Tail(four_u8s))

\* str_to_bigints cutting blocks of max_length + 1 limbs
str_to_bigints_wide(text, max_length) ==
    LET blocks == chunks(text, (max_length + 1) * BytesPerLimb)
    IN  Ok([b \in 1..Len(blocks) |->
               LET groups == chunks(blocks[b], BytesPerLimb)
                   value == [j \in 1..Len(groups) |-> PackLimb(groups[j])]
               IN  BigInt(value, Len(value))])

str_to_bigints(text, max_length) ==
    IF max_length * BytesPerLimb <= 0 THEN Panic("chunk size must be non-zero")
    ELSE LET blocks == chunks(text, max_length * BytesPerLimb)
         IN  Ok([b \in 1..Len(blocks) |->
                    LET groups == chunks(blocks[b], BytesPerLimb)
                        value == [j \in 1..Len(groups) |-> PackLimb(groups[j])]
                    IN  BigInt(value, Len(value))])

\* the four low bytes of a limb, the lowest first
LimbBytes(v) ==
    [i \in 1..BytesPerLimb |-> CharOf((v % (ByteBase^i)) \div (ByteBase^(i - 1)))]

bigints_to_str(xs) ==
    LET bytes == Concat([k \in 1..Len(xs) |->
                    Concat([j \in 1..xs[k].length |-> LimbBytes(xs[k].value[j])])])
        res == from_utf8(bytes)
    IN  IF res.tag # "ok" THEN Panic("utf8 decode failed")
        ELSE Ok(strip_suffix_or(res.val, "NUL"))

\* the blocks of a text, each raised to exponent ex, as comma-joined hex
PowerBlocks(text, nn, m, ex) ==
    LET ms == str_to_bigints(text, nn.length - 1)
    IN  IF ms.tag # "ok" THEN ms
        ELSE IF Len(ms.val) > 0 /\ ~(BarrettValid(m, nn) /\ Val(nn) > 1)
        THEN Panic("reduction with no modulus")
        ELSE Ok(join([k \in 1..Len(ms.val) |->
                        fmt_hex(mod_power(ms.val[k], ex, m, nn))], ","))

\* the comma-separated hex blocks of a string, each raised to exponent ex,
\* as text
UnpowerBlocks(text, nn, m, ex) ==
    LET ss == split(text, ",")
        cs == [k \in 1..Len(ss) |-> from_hex(ss[k])]
    IN  IF \E k \in 1..Len(ss) : cs[k].tag # "ok" THEN Panic("Reading hex data failed")
        ELSE IF ~(BarrettValid(m, nn) /\ Val(nn) > 1)
        THEN Panic("reduction with no modulus")
        ELSE bigints_to_str([k \in 1..Len(ss) |-> mod_power(cs[k].val, ex, m, nn)])

encrypt(text, nn, m) == PowerBlocks(text, nn, m, E_BIGINT)

decrypt(text, nn, m, dd) == UnpowerBlocks(text, nn, m, dd)

sign(text, nn, m, dd) == PowerBlocks(text, nn, m, dd)

ver_sign(message, text, nn, m) ==
    LET r == UnpowerBlocks(text, nn, m, E_BIGINT)
    IN  IF r.tag # "ok" THEN r ELSE Ok(<<r.val = message, r.val>>)

\* {:08x} of a u64
Hex08(v) ==
    LET h == HexOf(v)
    IN  [i \in 1..(8 - Min(8, Len(h))) |-> "0"] \o h

\* fmt_key writing the exponent with "{:x}", no leading zeros
fmt_key_unpadded(nn, dd) ==
    <<fmt_hex(nn) \o <<",">> \o HexOf(E), fmt_hex(nn) \o <<",">> \o fmt_hex(dd)>>

fmt_key(nn, dd) ==
    LET sn == fmt_hex(nn)
    IN  <<sn \o <<",">> \o Hex08(E), sn \o <<",">> \o fmt_hex(dd)>>

\* u64::from_str_radix(s, 16)
from_str_radix16(s) == IF IsHex(s) THEN Ok(HexValue(s)) ELSE Err("invalid digit")

key_from_str(pub, priv) ==
    LET at == find(pub, ",")
        sn1 == SubSeq(pub, 1, at)
        se == SubSeq(pub, at + 2, Len(pub))
        sn2 == SubSeq(priv, 1, at)
        sd == SubSeq(priv, at + 2, Len(priv))
        e == from_str_radix16(se)
        rn == from_hex(sn1)
        rd == from_hex(sd)
    IN  IF at < 0 THEN Err("Error parsing public key")
        ELSE IF at > Len(priv) THEN Panic("split_at: mid > len")
        ELSE IF at = Len(priv) THEN Panic("slice index starts at 1 but ends at 0")
        ELSE IF e.tag # "ok" THEN Err("Error parsing e")
        ELSE IF e.val # E THEN Err("Keys are not generated from this app, unsupported")
        ELSE IF sn1 # sn2 THEN Err("n in public key and private key not matching")
        ELSE IF rn.tag # "ok" THEN Err("Error parsing n: ")
        ELSE IF rd.tag # "ok" THEN Err("Error parsing d: ")
        ELSE Ok(<<rn.val, rd.val, rn.val.length * VALUE_LEN>>)

----------------------------------------------------------------------------
(* What the model draws from.                                              *)

\* the one-limb values BigInt::rand(1) is taken to draw: a number that
\* "| 1" turns into the prime 4099, the prime 4111, and 4105 = 5 * 821
RandPool == {4098, 4111, 4105}

\* BigInt::rand(big_int_len): the model draws primes of one limb only
rand(big_int_len) == IF big_int_len = 1 THEN RandPool ELSE {}

\* the witnesses the rounds of one miller_rabin call may have drawn
WitnessSets == {{2}, {2, 3}}

\* the (p, q) a call of gen_keys(length) may end up with
GenPrimes(bit_len) ==
    {gen_prime_num(c) : c \in {c \in rand(bit_len \div VALUE_LEN) :
                                \E ws \in WitnessSets : gen_prime_returns(c, ws)}}

\* the runs of gen_keys(length) the draws allow: the two primes, the outcome
GenKeysRuns(length) ==
    {[p |-> p, q |-> q, res |-> gen_keys_from(FromNat(p), FromNat(q))] :
        p \in GenPrimes(length \div 2), q \in GenPrimes(length \div 2)}

\* gen_keys(length): every outcome the draws allow
gen_keys(length) == {g.res : g \in GenKeysRuns(length)}

\* a key pair of distinct primes, and its two strings
GoodKeys == gen_keys_from(FromNat(4099), FromNat(4111)).val
GoodStr == fmt_key(GoodKeys[1], GoodKeys[2])

\* all strings over a set of characters, up to a length
RECURSIVE StringsUpTo(_, _)
StringsUpTo(cs, k) ==
    IF k = 0 THEN {<<>>}
    ELSE LET shorter == StringsUpTo(cs, k - 1)
         IN  shorter \cup {Append(s, c) : s \in {t \in shorter : Len(t) = k - 1}, c \in cs}

----------------------------------------------------------------------------
(* app.rs: the session.                                                    *)

DefaultKeyLen == 768

RECURSIVE DecOf(_)
\* format!("{}", usize)
DecOf(v) == IF v < 10 THEN <<HexChar(v)>> ELSE DecOf(v \div 10) \o <<HexChar(v % 10)>>

RECURSIVE DecValue(_)
DecValue(s) ==
    IF Len(s) = 0 THEN 0
    ELSE 10 * DecValue(SubSeq(s, 1, Len(s) - 1)) + HexVal(s[Len(s)])

\* str::parse::<usize>()
parse_usize(s) ==
    IF Len(s) > 0 /\ \A i \in 1..Len(s) : s[i] \in HexDigits /\ HexVal(s[i]) < 10
    THEN Ok(DecValue(s)) ELSE Err("invalid digit")

\* text_editor::Content::text(): the lines, the last one ended too
ContentText(c) == IF Len(c) > 0 /\ c[Len(c)] = "\n" THEN c ELSE c \o <<"\n">>

get_strip_input == strip_suffix_or(ContentText(input), "\n")

\* set_used_time(t)
UsedTime(t) == <<"Used time: ", t, "us">>

\* count_time: the microseconds a call is taken to last
Micros == {0, 1}

\* App::new()
AppNew ==
    /\ pub_key = <<>>
    /\ priv_key = <<>>
    /\ key_length = DecOf(DefaultKeyLen)
    /\ input = <<>>
    /\ output = <<>>
    /\ error = ""
    /\ used_time = <<>>
    /\ n = with_capacity(1)
    /\ d = with_capacity(1)
    /\ n_barrett_m = with_capacity(1)
    /\ key_len = DefaultKeyLen

\* the session takes a message: the process runs, and the model follows a
\* session for MaxSteps messages
MaxSteps == 6
aborted == panic # ""
Running == ~aborted /\ steps < MaxSteps

\* an update that returns, having called the rsa function `called`
Returns(called) ==
    /\ rsaCalled' = called
    /\ panic' = ""
    /\ steps' = steps + 1
    /\ UNCHANGED <<keys, probe>>

\* an update that panics with msg in the rsa function `called`: the process
\* is gone, and what it held with it
Aborts(called, msg) ==
    /\ rsaCalled' = called
    /\ panic' = msg
    /\ steps' = steps + 1
    /\ UNCHANGED <<appVars, keys, probe>>

\* what the user types into the key fields: the public string of GoodKeys
\* and the same with the last digit of the exponent missing; the private
\* string of GoodKeys with "x" for its comma, the same with another first
\* digit, and a single digit
PubKeyPool == {GoodStr[1], SubSeq(GoodStr[1], 1, Len(GoodStr[1]) - 1)}
PrivKeyPool ==
    LET at == find(GoodStr[2], ",") + 1
        no_comma == [i \in 1..Len(GoodStr[2]) |-> IF i = at THEN "x" ELSE GoodStr[2][i]]
    IN  {no_comma, [no_comma EXCEPT ![1] = "2"], <<"1">>}
KeyLenPool == {DecOf(2 * VALUE_LEN), <<"4", "x">>}
\* what the user types into the input: a text, and a hex block that no
\* generated key decrypts to text
InputPool == {<<"h", "i">>, <<"1", "c">>}

PubKeyChanged(s) ==
    /\ Running
    /\ pub_key' = s
    /\ UNCHANGED <<priv_key, key_length, input, output, error, used_time,
                   n, d, n_barrett_m, key_len>>
    /\ Returns("none")

PrivKeyChanged(s) ==
    /\ Running
    /\ priv_key' = s
    /\ UNCHANGED <<pub_key, key_length, input, output, error, used_time,
                   n, d, n_barrett_m, key_len>>
    /\ Returns("none")

\* the content after the edit is s
InputChanged(s) ==
    /\ Running
    /\ input' = s
    /\ UNCHANGED <<pub_key, priv_key, key_length, output, error, used_time,
                   n, d, n_barrett_m, key_len>>
    /\ Returns("none")

\* an Action::Edit is dropped; any other action leaves the text as it is
OutputChanged ==
    /\ Running
    /\ UNCHANGED appVars
    /\ Returns("none")

KeyLenChanged(s) ==
    /\ Running
    /\ LET l == parse_usize(s)
       IN  IF l.tag = "ok"
           THEN key_len' = l.val /\ key_length' = s
           ELSE UNCHANGED <<key_len, key_length>>
    /\ UNCHANGED <<pub_key, priv_key, input, output, error, used_time,
                   n, d, n_barrett_m>>
    /\ Returns("none")

SwapPressed ==
    /\ Running
    /\ input' = strip_suffix_or(ContentText(output), "\n")
    /\ output' = <<>>
    /\ UNCHANGED <<pub_key, priv_key, key_length, error, used_time,
                   n, d, n_barrett_m, key_len>>
    /\ Returns("none")

GenKeyPressed ==
    /\ Running
    /\ \E r \in gen_keys(key_len), t \in Micros :
        LET bm == barrett_m(r.val[1])
            strs == fmt_key(r.val[1], r.val[2])
        IN  IF r.tag # "ok" THEN Aborts("gen_keys", r.val)
            ELSE IF bm.tag # "ok" THEN Aborts("gen_keys", bm.val)
            ELSE /\ error' = ""
                 /\ n' = r.val[1]
                 /\ d' = r.val[2]
                 /\ used_time' = UsedTime(t)
                 /\ n_barrett_m' = bm.val
                 /\ pub_key' = strs[1]
                 /\ priv_key' = strs[2]
                 /\ UNCHANGED <<key_length, input, output, key_len>>
                 /\ Returns("gen_keys")

\* SetKeyPressed discarding the installed keys when key_from_str fails
SetKeyPressedDiscarding ==
    /\ Running
    /\ LET r == key_from_str(pub_key, priv_key)
           bm == barrett_m(r.val[1])
       IN  IF r.tag = "panic" THEN Aborts("key_from_str", r.val)
           ELSE IF r.tag = "err"
           THEN /\ error' = r.val
                /\ n' = with_capacity(1)
                /\ d' = with_capacity(1)
                /\ n_barrett_m' = with_capacity(1)
                /\ UNCHANGED <<pub_key, priv_key, key_length, input, output,
                               used_time, key_len>>
                /\ Returns("key_from_str")
           ELSE IF bm.tag # "ok" THEN Aborts("key_from_str", bm.val)
           ELSE /\ error' = ""
                /\ n' = r.val[1]
                /\ d' = r.val[2]
                /\ key_len' = r.val[3]
                /\ n_barrett_m' = bm.val
                /\ key_length' = DecOf(r.val[3])
                /\ UNCHANGED <<pub_key, priv_key, input, output, used_time>>
                /\ Returns("key_from_str")

SetKeyPressed ==
    /\ Running
    /\ LET r == key_from_str(pub_key, priv_key)
           bm == barrett_m(r.val[1])
       IN  IF r.tag = "panic" THEN Aborts("key_from_str", r.val)
           ELSE IF r.tag = "err"
           THEN /\ error' = r.val
                /\ UNCHANGED <<pub_key, priv_key, key_length, input, output,
                               used_time, n, d, n_barrett_m, key_len>>
                /\ Returns("key_from_str")
           ELSE IF bm.tag # "ok" THEN Aborts("key_from_str", bm.val)
           ELSE /\ error' = ""
                /\ n' = r.val[1]
                /\ d' = r.val[2]
                /\ key_len' = r.val[3]
                /\ n_barrett_m' = bm.val
                /\ key_length' = DecOf(r.val[3])
                /\ UNCHANGED <<pub_key, priv_key, input, output, used_time>>
                /\ Returns("key_from_str")

NeedKeys == "You need to regenerate/reset keys"

\* one of the four buttons without the guard on error
PressedUnguarded(called, res) ==
    /\ Running
    /\ IF res.tag # "ok" THEN Aborts(called, res.val)
       ELSE \E t \in Micros :
            /\ used_time' = UsedTime(t)
            /\ output' = res.val
            /\ UNCHANGED <<pub_key, priv_key, key_length, input, error,
                           n, d, n_barrett_m, key_len>>
            /\ Returns(called)

\* one of the four buttons giving its keys away instead of cloning them
PressedMoving(called, res) ==
    /\ Running
    /\ IF error # ""
       THEN /\ error' = "You need to regenerate/reset keys"
            /\ UNCHANGED <<pub_key, priv_key, key_length, input, output,
                           used_time, n, d, n_barrett_m, key_len>>
            /\ Returns("none")
       ELSE IF res.tag # "ok" THEN Aborts(called, res.val)
       ELSE \E t \in Micros :
            /\ used_time' = UsedTime(t)
            /\ output' = res.val
            /\ n' = with_capacity(1)
            /\ n_barrett_m' = with_capacity(1)
            /\ UNCHANGED <<pub_key, priv_key, key_length, input, error,
                           d, key_len>>
            /\ Returns(called)

\* one of the four buttons: the guard on error, then preform_action(func),
\* res being what func returns on get_strip_input
Pressed(called, res) ==
    /\ Running
    /\ IF error # ""
       THEN /\ error' = NeedKeys
            /\ UNCHANGED <<pub_key, priv_key, key_length, input, output,
                           used_time, n, d, n_barrett_m, key_len>>
            /\ Returns("none")
       ELSE IF res.tag # "ok" THEN Aborts(called, res.val)
       ELSE \E t \in Micros :
            /\ used_time' = UsedTime(t)
            /\ output' = res.val
            /\ UNCHANGED <<pub_key, priv_key, key_length, input, error,
                           n, d, n_barrett_m, key_len>>
            /\ Returns(called)

EncryptPressed ==
    Pressed("encrypt", encrypt(get_strip_input, n, n_barrett_m))

DecryptPressed ==
    Pressed("decrypt", decrypt(get_strip_input, n, n_barrett_m, d))

SignPressed ==
    Pressed("sign",
            LET s == get_strip_input
                r == sign(s, n, n_barrett_m, d)
            IN  IF r.tag # "ok" THEN r ELSE Ok(s \o <<"\n">> \o r.val))

BoolStr(b) == IF b THEN <<"t", "r", "u", "e">> ELSE <<"f", "a", "l", "s", "e">>

InvalidVerifyInput ==
    << "I", "n", "v", "a", "l", "i", "d", " ", "i", "n", "p", "u", "t", " ",
       "f", "o", "r", " ", "v", "e", "r", "i", "f", "y", " ", "s", "i", "g", "n" >>

VerifySignPressed ==
    LET sp == split(get_strip_input, "\n")
        r == ver_sign(sp[1], sp[2], n, n_barrett_m)
    IN  Pressed(IF Len(sp) # 2 THEN "none" ELSE "ver_sign",
                IF Len(sp) # 2 THEN Ok(InvalidVerifyInput)
                ELSE IF r.tag # "ok" THEN r
                ELSE Ok(BoolStr(r.val[1]) \o <<"\n">> \o r.val[2]))

\* ResetPressed leaving the key fields and the timing as they are
ResetPressedPartial ==
    /\ Running
    /\ input' = <<>>
    /\ output' = <<>>
    /\ error' = ""
    /\ n' = with_capacity(1)
    /\ d' = with_capacity(1)
    /\ n_barrett_m' = with_capacity(1)
    /\ UNCHANGED <<pub_key, priv_key, key_length, key_len, used_time>>
    /\ Returns("none")

ResetPressed ==
    /\ Running
    /\ pub_key' = <<>>
    /\ priv_key' = <<>>
    /\ key_length' = DecOf(DefaultKeyLen)
    /\ input' = <<>>
    /\ output' = <<>>
    /\ error' = ""
    /\ used_time' = <<>>
    /\ n' = with_capacity(1)
    /\ d' = with_capacity(1)
    /\ n_barrett_m' = with_capacity(1)
    /\ key_len' = DefaultKeyLen
    /\ Returns("none")

NoKeys == [tag |-> "none", val |-> <<>>]
NoProbe == [op |-> "none", arg |-> <<>>, res |-> <<>>]

Init ==
    /\ AppNew
    /\ panic = ""
    /\ rsaCalled = "none"
    /\ steps = 0
    /\ keys = NoKeys
    /\ probe = NoProbe

Next ==
    \/ \E s \in PubKeyPool : PubKeyChanged(s)
    \/ \E s \in PrivKeyPool : PrivKeyChanged(s)
    \/ \E s \in InputPool : InputChanged(s)
    \/ OutputChanged
    \/ \E s \in KeyLenPool : KeyLenChanged(s)
    \/ SwapPressed
    \/ GenKeyPressed
    \/ SetKeyPressed
    \/ EncryptPressed
    \/ DecryptPressed
    \/ SignPressed
    \/ VerifySignPressed
    \/ ResetPressed

Spec == Init /\ [][Next]_vars

----------------------------------------------------------------------------
(* rsa.rs called directly, as main.rs does: keys are generated, then a     *)
(* text goes through encrypt and decrypt, or through sign and ver_sign.    *)
(* keys holds the generated pair, probe the one call made with it.         *)

KeyBits == 2 * VALUE_LEN

MaxText == 5
TextChars == {"h", "i"}
Texts == StringsUpTo(TextChars, MaxText) \ {<<>>}

\* the messages a signature of t is verified against
Messages(t) == {t, Append(t, "NUL"), <<"h">>}

CallGenKeys ==
    /\ keys = NoKeys
    /\ \E g \in GenKeysRuns(KeyBits) :
        /\ g.res.tag = "ok"
        /\ keys' = [tag |-> "keys", p |-> g.p, q |-> g.q,
                    n |-> g.res.val[1], d |-> g.res.val[2],
                    m |-> barrett_m(g.res.val[1]).val]
    /\ probe' = NoProbe
    /\ UNCHANGED <<appVars, obsVars>>

CallEncryptDecrypt ==
    /\ keys.tag = "keys"
    /\ probe = NoProbe
    /\ \E t \in Texts :
        LET c == encrypt(t, keys.n, keys.m)
        IN  probe' = [op |-> "decrypt", arg |-> t,
                      res |-> IF c.tag # "ok" THEN c
                              ELSE decrypt(c.val, keys.n, keys.m, keys.d)]
    /\ UNCHANGED <<appVars, obsVars, keys>>

CallSignVerify ==
    /\ keys.tag = "keys"
    /\ probe = NoProbe
    /\ \E t \in Texts : \E message \in Messages(t) :
        LET sg == sign(t, keys.n, keys.m, keys.d)
        IN  probe' = [op |-> "ver_sign", arg |-> <<message, t>>,
                      res |-> IF sg.tag # "ok" THEN sg
                              ELSE ver_sign(message, sg.val, keys.n, keys.m)]
    /\ UNCHANGED <<appVars, obsVars, keys>>

NextRsa ==
    \/ CallGenKeys
    \/ CallEncryptDecrypt
    \/ CallSignVerify

SpecRsa == Init /\ [][NextRsa]_vars

----------------------------------------------------------------------------
(* fmt_key and key_from_str called directly.                               *)

\* the strings key_from_str is given: a modulus field, a comma, an exponent
\* field, and strings with no comma
ModulusFields == {<<>>, <<"1">>, <<"1", "2">>, <<"z">>}
ExponentFields == {Hex08(E), HexOf(E), Hex08(E + 1), <<>>, <<"z">>}
PubStrs ==
    {mf \o <<",">> \o ef : mf \in ModulusFields, ef \in ExponentFields}
        \cup {<<>>, <<"1", "2">>}
PrivStrs ==
    { <<>>, <<"1">>, <<"1", "2">>, <<"1", ",", "5">>, <<"1", "2", ",", "5">>,
      <<"1", "2", "x", "5">>, <<"1", "3", ",", "5">>, <<"1", "2", ",">>,
      <<"1", "2", ",", "z">>, <<"z", ",", "5">>, <<",", "5">> }

\* the numbers fmt_key is given
KeyNats == {0, 1, 10, 255, Radix - 1, Radix, Radix + 1, Val(GoodKeys[1])}

CallKeyFromStr ==
    /\ probe = NoProbe
    /\ \E pub \in PubStrs, priv \in PrivStrs :
        probe' = [op |-> "key_from_str", arg |-> <<pub, priv>>,
                  res |-> key_from_str(pub, priv)]
    /\ UNCHANGED <<appVars, obsVars, keys>>

CallFmtKey ==
    /\ probe = NoProbe
    /\ \E a \in KeyNats, b \in KeyNats :
        LET strs == fmt_key(FromNat(a), FromNat(b))
        IN  probe' = [op |-> "fmt_key", arg |-> <<FromNat(a), FromNat(b)>>,
                      res |-> <<strs, key_from_str(strs[1], strs[2])>>]
    /\ UNCHANGED <<appVars, obsVars, keys>>

NextKeys ==
    \/ CallKeyFromStr
    \/ CallFmtKey

SpecKeys == Init /\ [][NextKeys]_vars

----------------------------------------------------------------------------
(* str_to_bigints called as encrypt and sign call it, on n.length - 1.     *)

MaxLimbs == 3
MaxLen == 9
CodecChars == {"a", "-"}

RECURSIVE LimbSeqs(_)
\* the limb sequences of k limbs whose top limb is not zero
LimbSeqs(k) ==
    IF k = 1 THEN {<<1>>, <<Radix - 1>>}
    ELSE {<<low>> \o hi : low \in {0, Radix - 1}, hi \in LimbSeqs(k - 1)}

\* moduli of 2 .. MaxLimbs significant limbs
Moduli == UNION {{from_slice(v) : v \in LimbSeqs(k)} : k \in 2..MaxLimbs}

CallStrToBigints ==
    /\ probe = NoProbe
    /\ \E text \in StringsUpTo(CodecChars, MaxLen), nn \in Moduli :
        probe' = [op |-> "str_to_bigints", arg |-> <<text, nn>>,
                  res |-> str_to_bigints(text, nn.length - 1)]
    /\ UNCHANGED <<appVars, obsVars, keys>>

\* the codec alone: a NUL-free text cut into blocks of max_length limbs and
\* read back
CallBigintsToStr ==
    /\ probe = NoProbe
    /\ \E text \in StringsUpTo(CodecChars, MaxLen), max_length \in 1..(MaxLimbs - 1) :
        LET ms == str_to_bigints(text, max_length)
        IN  probe' = [op |-> "bigints_to_str", arg |-> <<text, max_length>>,
                      res |-> IF ms.tag # "ok" THEN ms ELSE bigints_to_str(ms.val)]
    /\ UNCHANGED <<appVars, obsVars, keys>>

NextCodec == CallStrToBigints \/ CallBigintsToStr

SpecCodec == Init /\ [][NextCodec]_vars

----------------------------------------------------------------------------
(* The back-substitution of gen_keys on coefficients, quotients and values *)
(* of phi(n) of its own.                                                   *)

MaxCoef == 4

\* values of phi(n): small ones and that of the primes 4099 and 4111
PhiPool == {1, 2, 3, 5, 12, (4099 - 1) * (4111 - 1)}

\* coefficients u and v: small ones, and those about phi_n
CoefPool(phi_n) == (0..MaxCoef) \cup {phi_n - 1, phi_n, phi_n + 1, 2 * phi_n + 1}

\* quotients: small ones, and that of phi_n by E
DivPool(phi_n) == (0..MaxCoef) \cup {phi_n \div E, phi_n}

CallBackSubstitution ==
    /\ probe = NoProbe
    /\ \E phi \in PhiPool :
       \E u \in CoefPool(phi), v \in CoefPool(phi), div \in DivPool(phi) :
        LET phi_n == FromNat(phi)
        IN  probe' = [op |-> "back_substitution", arg |-> <<u, v, div, phi>>,
                      res |-> back_substitution(FromNat(u), FromNat(v), FromNat(div),
                                                barrett_m(phi_n).val, phi_n)]
    /\ UNCHANGED <<appVars, obsVars, keys>>

NextInverse == CallBackSubstitution

SpecInverse == Init /\ [][NextInverse]_vars

----------------------------------------------------------------------------
(* gen_keys as it runs: the retry loop of gen_prime turn by turn, for p     *)
(* and then for q, and the inversion of E that follows.  The candidates     *)
(* here include primes whose products are wider than the integers above,    *)
(* so what follows the loops is the remainder r of phi_n by E, computed     *)
(* from the two factors, and the outcome of extended_euclid on (E, r).      *)

MaxTurns == 5

\* the lengths gen_keys is called with: one and two limbs per prime
SearchLengths == {2 * VALUE_LEN, 4 * VALUE_LEN}

\* BigInt::rand(big_int_len): the values of that many limbs drawn here
SearchPool(big_int_len) ==
    IF big_int_len = 1 THEN RandPool \cup {E, 10 * E}
    ELSE IF big_int_len = 2 THEN {Radix + 1, Radix + 3, Radix + 42, Radix + 73, 150 * E}
    ELSE {}

SearchCands == UNION {SearchPool((l \div 2) \div VALUE_LEN) : l \in SearchLengths}

\* line 33: the remainder r of phi_n = (p - 1) * (q - 1) by E
gen_keys_r(p, q) == MulMod((p - 1) % E, (q - 1) % E, E)

\* line 34: whether extended_euclid(E, r, ..) finds E invertible
gen_keys_invertible(p, q) == EGcd(E, gen_keys_r(p, q))[1] = 1

\* gen_prime_returns and gen_keys_invertible over the candidates, computed
\* once
SearchAccepts ==
    [cand \in SearchCands |-> [ws \in WitnessSets |-> gen_prime_returns(cand, ws)]]
SearchPrimes ==
    {gen_prime_num(cand) :
        cand \in {c \in SearchCands : \E ws \in WitnessSets : SearchAccepts[c][ws]}}
SearchInvertible ==
    [p \in SearchPrimes |-> [q \in SearchPrimes |-> gen_keys_invertible(p, q)]]

NoSearch == [pc |-> "p", p |-> 0, q |-> 0, num |-> 0, turns |-> 0]

\* gen_keys(length) is called
GenKeysCalled ==
    /\ probe = NoProbe
    /\ \E length \in SearchLengths :
        probe' = [op |-> "gen_keys", arg |-> length, res |-> NoSearch]
    /\ UNCHANGED <<appVars, obsVars, keys>>

\* one turn of the loop of gen_prime(length / 2): cand is drawn and made
\* odd; the turn returns it, or the loop goes round
GenPrimeTurn(cand, ws) ==
    /\ probe.op = "gen_keys"
    /\ probe.res.pc \in {"p", "q"}
    /\ cand \in SearchPool((probe.arg \div 2) \div VALUE_LEN)
    /\ LET num == gen_prime_num(cand)
           st == probe.res
       IN  probe' = [probe EXCEPT !.res =
                IF ~SearchAccepts[cand][ws]
                THEN [st EXCEPT !.num = num, !.turns = Min(st.turns + 1, MaxTurns)]
                ELSE IF st.pc = "p"
                THEN [st EXCEPT !.pc = "q", !.p = num, !.num = 0, !.turns = 0]
                ELSE [st EXCEPT !.pc = "rest", !.q = num, !.num = 0, !.turns = 0]]
    /\ UNCHANGED <<appVars, obsVars, keys>>

\* lines 28-40 with both primes at hand: gen_keys returns, unless
\* extended_euclid reports that E has no inverse
GenKeysRest ==
    /\ probe.op = "gen_keys"
    /\ probe.res.pc = "rest"
    /\ probe' = [probe EXCEPT !.res.pc =
            IF SearchInvertible[probe.res.p][probe.res.q]
            THEN "returned" ELSE "panicked"]
    /\ UNCHANGED <<appVars, obsVars, keys>>

NextSearch ==
    \/ GenKeysCalled
    \/ \E cand \in SearchCands, ws \in WitnessSets : GenPrimeTurn(cand, ws)
    \/ GenKeysRest

SpecSearch == Init /\ [][NextSearch]_vars

\* a fair randomness source draws every candidate again and again, and the
\* sequential code after the loops runs on
SpecSearchFair ==
    /\ SpecSearch
    /\ \A cand \in SearchCands : WF_vars(\E ws \in WitnessSets : GenPrimeTurn(cand, ws))
    /\ WF_vars(GenKeysRest)

----------------------------------------------------------------------------
(* The properties.                                                         *)

\* C1: for every key pair gen_keys returns and every non-empty printable
\* text t of any byte length, decrypt(encrypt(t, n, m), n, m, d) returns
\* exactly t.
C1_RoundTrip ==
    probe.op = "decrypt" => probe.res.tag = "ok" /\ probe.res.val = probe.arg

\* C2: for every key pair gen_keys returns and every non-empty printable
\* text t, ver_sign(t, sign(t, n, m, d), n, m) returns (true, t); and the
\* flag ver_sign returns is true exactly when the recovered text equals the
\* message it was given.
C2_SignVerify ==
    probe.op = "ver_sign" =>
        /\ probe.arg[1] = probe.arg[2] =>
               probe.res.tag = "ok" /\ probe.res.val = <<TRUE, probe.arg[2]>>
        /\ probe.res.tag = "ok" =>
               (probe.res.val[1] <=> probe.res.val[2] = probe.arg[1])

\* C3: for every (n, d) gen_keys returns, with n = p * q and
\* phi = (p - 1) * (q - 1) for the p, q gen_prime drew, (E * d) mod phi = 1.
C3_InverseExponent ==
    keys.tag = "keys" =>
        LET phi == (keys.p - 1) * (keys.q - 1)
        IN  /\ Val(keys.n) = keys.p * keys.q
            /\ MulMod(E % phi, Val(keys.d), phi) = 1

\* a key pair of two different primes whose phi is above E (so that the
\* quotient of line 33 is not zero) has been returned
C3_Witness ==
    /\ keys.tag = "keys"
    /\ keys.p # keys.q
    /\ ((keys.p - 1) * (keys.q - 1)) \div E > 0
    /\ Val(keys.d) > 1

\* the text before the first comma of a key string (all of it without one)
ModulusField(s) == IF find(s, ",") < 0 THEN s ELSE SubSeq(s, 1, find(s, ","))
\* the text after the first comma of a key string
ExponentField(s) == SubSeq(s, find(s, ",") + 2, Len(s))

\* C4: key_from_str returns Err whenever the modulus field of priv_key
\* differs from that of pub_key, and whenever the exponent field of pub_key
\* parses to a value other than E.
C4_RejectsMismatch ==
    probe.op = "key_from_str" =>
        LET pub == probe.arg[1]
            priv == probe.arg[2]
            e == from_str_radix16(ExponentField(pub))
        IN  (\/ ModulusField(priv) # ModulusField(pub)
             \/ find(pub, ",") >= 0 /\ e.tag = "ok" /\ e.val # E)
                => probe.res.tag = "err"

\* C5: key_from_str ends with Ok or a typed Err on all strings and never
\* panics; a priv_key without a comma, or shorter than the modulus field of
\* pub_key, yields Err.
C5_NeverPanics ==
    probe.op = "key_from_str" =>
        LET pub == probe.arg[1]
            priv == probe.arg[2]
        IN  /\ probe.res.tag \in {"ok", "err"}
            /\ (find(priv, ",") < 0 \/ Len(priv) < Len(ModulusField(pub)))
                   => probe.res.tag = "err"

\* C6: key_from_str(fmt_key(n, d)) returns Ok((n, d, n.length * VALUE_LEN)),
\* and the exponent field fmt_key writes is the 8 hex digits of E.
C6_KeyRoundTrip ==
    probe.op = "fmt_key" =>
        LET nn == probe.arg[1]
            dd == probe.arg[2]
            pub == probe.res[1][1]
            back == probe.res[2]
        IN  /\ back.tag = "ok"
            /\ back.val = <<nn, dd, nn.length * VALUE_LEN>>
            /\ ExponentField(pub) = <<"0", "0", "0", "1", "b", "f", "3", "d">>
            /\ HexValue(ExponentField(pub)) = E

\* a two-limb modulus and a private exponent have gone through fmt_key and
\* key_from_str
C6_Witness ==
    /\ probe.op = "fmt_key"
    /\ probe.arg[1].length = 2
    /\ Val(probe.arg[2]) > 1
    /\ probe.res[2].tag = "ok"

Crypto == EncryptPressed \/ DecryptPressed \/ SignPressed \/ VerifySignPressed
SetKeyOk == SetKeyPressed /\ key_from_str(pub_key, priv_key).tag = "ok"
SetKeyFails == SetKeyPressed /\ key_from_str(pub_key, priv_key).tag = "err"

\* C7: a SetKeyPressed whose key_from_str fails leaves error non-empty, and
\* while error is non-empty every message other than GenKeyPressed,
\* ResetPressed and a successful SetKeyPressed leaves it non-empty; the
\* four crypto buttons then call no rsa function and leave output and
\* used_time as they are.
C7_DisabledUntilRekey ==
    [][/\ SetKeyFails => error' # ""
       /\ error # "" =>
            \/ GenKeyPressed \/ ResetPressed \/ SetKeyOk
            \/ /\ error' # ""
               /\ Crypto => rsaCalled' = "none" /\ UNCHANGED <<output, used_time>>
      ]_vars

\* a crypto button has been pressed after a failed SetKeyPressed
C7_Witness == error = NeedKeys /\ rsaCalled = "none" /\ ~aborted

\* C8: after GenKeyPressed, a successful SetKeyPressed and ResetPressed the
\* cached n_barrett_m is n.barrett_m() of the new n.
C8_BarrettCached ==
    [][(GenKeyPressed \/ SetKeyOk \/ ResetPressed) /\ ~aborted'
            => BarrettValid(n_barrett_m', n')]_vars

\* C9: a ciphertext block that is no hex, or recovered bytes that are no
\* UTF-8, do not abort the process.
C9_DecodeRecoverable ==
    panic \notin {"utf8 decode failed", "Reading hex data failed"}

\* C10: for a modulus of L >= 2 significant limbs, each block of
\* str_to_bigints(text, L - 1) has at most L - 1 limbs, each limb below
\* 2^(bits of four bytes), and a value below the modulus.
C10_BlocksBelowModulus ==
    probe.op = "str_to_bigints" =>
        LET nn == probe.arg[2]
            L == SigLen(nn)
            r == probe.res
        IN  /\ r.tag = "ok"
            /\ \A k \in 1..Len(r.val) :
                /\ r.val[k].length <= L - 1
                /\ Len(r.val[k].value) = r.val[k].length
                /\ \A j \in 1..r.val[k].length :
                        r.val[k].value[j] < ByteBase ^ BytesPerLimb
                /\ Less(r.val[k], nn)

\* a text of more than one block, the last one partial, has been cut for a
\* modulus of three limbs
C10_Witness ==
    /\ probe.op = "str_to_bigints"
    /\ SigLen(probe.arg[2]) = 3
    /\ probe.res.tag = "ok"
    /\ Len(probe.res.val) = 2
    /\ probe.res.val[2].length = 1

\* C11: a SetKeyPressed whose key_from_str returns Err changes the error
\* field only: n, d, n_barrett_m, key_len, key_length, pub_key, priv_key,
\* input and output stay as they are.
C11_FailedSetKeyFrame ==
    [][SetKeyFails =>
            UNCHANGED <<n, d, n_barrett_m, key_len, key_length, pub_key,
                        priv_key, input, output>>]_vars

\* key_from_str has returned Err in a session that holds generated keys
C11_Witness ==
    /\ rsaCalled = "key_from_str"
    /\ error \notin {"", NeedKeys}
    /\ ~aborted
    /\ Val(n) > 1

\* C15: from every reachable state ResetPressed yields the state of
\* App::new(), field by field.
C15_ResetIsNew ==
    [][ResetPressed =>
            /\ pub_key' = <<>>
            /\ priv_key' = <<>>
            /\ key_length' = <<"7", "6", "8">>
            /\ key_len' = 768
            /\ input' = <<>>
            /\ output' = <<>>
            /\ error' = ""
            /\ used_time' = <<>>
            /\ n' = with_capacity(1)
            /\ d' = with_capacity(1)
            /\ n_barrett_m' = with_capacity(1)
            /\ AppNew']_vars

\* a session that is as App::new() made it after five messages or more,
\* ResetPressed among the ways to get there
C15_Witness == AppNew /\ steps >= 5 /\ ~aborted

\* C17: n, d and n_barrett_m change only on GenKeyPressed, a successful
\* SetKeyPressed and ResetPressed; every other message leaves all three
\* as they are.
C17_KeyMaterialFrame ==
    [][(n' # n \/ d' # d \/ n_barrett_m' # n_barrett_m) =>
            GenKeyPressed \/ SetKeyOk \/ ResetPressed]_vars

\* an rsa function has run on installed keys and returned
C17_Witness ==
    /\ rsaCalled \in {"encrypt", "decrypt", "sign", "ver_sign"}
    /\ ~aborted
    /\ Val(n) > 1
    /\ output # <<>>

\* C18: whenever one of the four buttons calls an rsa function, the modulus
\* in use is not the placeholder BigInt::with_capacity(1).
C18_NoPlaceholderCall ==
    rsaCalled \in {"encrypt", "decrypt", "sign", "ver_sign"} =>
        n # with_capacity(1)

\* C14: for every block limb count k >= 1 and every text t without a NUL
\* byte, of any byte length, bigints_to_str(str_to_bigints(t, k)) is t, with
\* no zero byte left at its end.
C14_CodecRoundTrip ==
    probe.op = "bigints_to_str" =>
        probe.res.tag = "ok" /\ probe.res.val = probe.arg[1]

\* C13: in the back-substitution of gen_keys, for all coefficients u >= 0
\* and v >= 0 and every quotient div, the subtraction u - div_v is executed
\* with u >= div_v only, div_v being (v * div) mod phi(n), and the d
\* returned satisfies 0 <= d < phi(n).
C13_BackSubstitution ==
    probe.op = "back_substitution" =>
        /\ probe.res.tag = "ok"
        /\ Val(probe.res.val.subtrahend) =
               MulMod(probe.arg[2] % probe.arg[4], probe.arg[3], probe.arg[4])
        /\ Val(probe.res.val.minuend) >= Val(probe.res.val.subtrahend)
        /\ Val(probe.res.val.d) >= 0
        /\ Val(probe.res.val.d) < probe.arg[4]

\* the back-substitution has run on a u below div_v, and added phi(n) to it
C13_Witness ==
    /\ probe.op = "back_substitution"
    /\ probe.res.tag = "ok"
    /\ probe.arg[1] < Val(probe.res.val.subtrahend)
    /\ Val(probe.res.val.minuend) = probe.arg[1] + probe.arg[4]

\* C12: for every pair p, q gen_prime can return (odd, not divisible by E,
\* accepted by miller_rabin), gcd(E, (p - 1) * (q - 1)) = 1, that is
\* phi(n) mod E # 0, so gen_keys never calls extended_euclid with an
\* exponent that has no inverse.
C12_ExponentInvertible ==
    (probe.op = "gen_keys" /\ probe.res.pc \in {"rest", "returned", "panicked"}) =>
        /\ gen_keys_r(probe.res.p, probe.res.q) # 0
        /\ EGcd(E, gen_keys_r(probe.res.p, probe.res.q))[1] = 1

\* C16: under a fair randomness source gen_prime(bit_len) eventually
\* returns, for p and for q, and therefore every call of gen_keys(length)
\* eventually returns.
C16_GenKeysReturns ==
    (probe.op = "gen_keys") ~> (probe.op = "gen_keys" /\ probe.res.pc = "returned")
====
